---- MODULE Spec2Model ----
(***************************************************************************)
(* pytest-mpi: the launch/detection state machine of pytest_mpi.py, the    *)
(* parallel marker's process-count resolution and test generation,         *)
(* parallel_assert over COMM_WORLD, and the script mpispawn.py.            *)
(*                                                                         *)
(* One OS process per rank.  Every rank runs its own pytest session over   *)
(* the same collected items: collection, then per item setup, call and     *)
(* teardown.  Ranks meet only in the blocking collectives of COMM_WORLD    *)
(* (allgather in parallel_assert, barrier in barrier_finalize).  MPI       *)
(* matches the collectives of a communicator by the order in which each    *)
(* rank enters them; an exchange completes once every rank of the group    *)
(* has entered a collective of the same kind and never otherwise (there is *)
(* no timeout).                                                            *)
(***************************************************************************)
EXTENDS Integers, Sequences, FiniteSets, TLC

\* ------------------------------------------------------------------ bounds
MaxSize == 2        \* largest COMM_WORLD.size explored
MaxNprocs == 2      \* largest explicit process count in a marker of a session
MaxItems == 2       \* most collected items in a session
MaxCalls == 2       \* most call sites of parallel_assert in a test body
MaxStatus == 2      \* largest return code of the launcher
MaxLen == 2         \* longest iterable given to a marker (SpecParse)
MaxVal == 2         \* largest integer given to a marker (SpecParse, SpecGen)
MaxCeil == 3        \* largest value of PYTEST_MPI_MAX_NPROCS (SpecGen)
MaxWorld == 5       \* largest COMM_WORLD.size of mpispawn.py (SpecSpawn)

\* The parallel marker's default process count ("return (3,)").
DefaultNprocs == 3

VARIABLES
    \* ---- the sessions of the ranks of one group (Spec, SpecGroup)
    items,            \* the collected items, the same on every rank
    size,             \* MPI.COMM_WORLD.size
    child,            \* CHILD_PROCESS_FLAG in os.environ
    sites,            \* the parallel_assert call sites of a body all ranks share
    _plugin_in_use,   \* [rank -> BOOLEAN], the module global of each process
    pc,               \* [rank -> where the rank's session is]
    cur,              \* [rank -> index in items of the item being run]
    obj,              \* [rank -> item.obj: "test_body" or "parallel_callback"]
    cmd,              \* [rank -> the mpiexec command closed over by the callback]
    finalizer,        \* [rank -> BOOLEAN] barrier_finalize registered its barrier
    reports,          \* [rank -> the outcomes of the items run so far, in order]
    point,            \* [rank -> call sites of the current body the rank has passed]
    skipped,          \* [rank -> the call sites it passed without calling]
    ncalls,           \* [rank -> allgathers it entered in the current body]
    last,             \* [rank -> the last allgather it entered in the current body]
    all_results,      \* [rank -> the sequence allgather returned to the last call]
    failing,          \* [rank -> the rank list of the last AssertionError message]
    slot,             \* [rank -> the collective the rank has entered]
    waiting,          \* [rank -> BOOLEAN] entered and the exchange is not complete
    inbox,            \* [rank -> what the completed exchange delivered]
    launches,         \* the launcher invocations made so far, in order
    returncode,       \* [rank -> return code of the last completed subprocess.run]
    \* ---- marker resolution and test generation (SpecParse, SpecGen)
    marker,           \* the parallel marker of the test function (NoMarker: none)
    parsed,           \* the result of _parse_marker_nprocs(marker)
    environ,          \* os.environ's entry for MAX_NPROCS_FLAG
    generated,        \* the outcome of pytest_generate_tests for the function
    \* ---- mpispawn.py (SpecSpawn); size is its COMM_WORLD.size, n
    ii,               \* [rank -> the loop variable of the spawning loop]
    inSpawn,          \* [rank -> BOOLEAN] inside the collective COMM_WORLD.Spawn
    comm_list,        \* the groups spawned so far, in order
    mpispawn_status,  \* [rank -> the script's variable status]
    done,             \* the groups rank 0 has gathered from and disconnected
    reported,         \* every status a spawned process has reported so far
    exited            \* [rank -> <<>> while running, <<exit status>> after]

envVars == <<items, size, child, sites>>
itemVars == <<obj, cmd, finalizer>>
bodyVars == <<point, skipped, ncalls, last, all_results, failing>>
mpiVars == <<slot, waiting, inbox>>
launchVars == <<launches, returncode>>
sessionVars == <<envVars, _plugin_in_use, pc, cur, itemVars, reports, bodyVars,
                 mpiVars, launchVars>>
parseVars == <<marker, parsed, environ, generated>>
spawnVars == <<ii, inSpawn, comm_list, mpispawn_status, done, reported, exited>>
vars == <<sessionVars, parseVars, spawnVars>>

\* ------------------------------------------------------- markers and items
\* A marker argument: an integer k is [iter |-> FALSE, v |-> <<k>>], an
\* iterable is [iter |-> TRUE, v |-> its elements in iteration order].
IntArg(k) == [iter |-> FALSE, v |-> <<k>>]
IterArg(s) == [iter |-> TRUE, v |-> s]

NoMarker == [present |-> FALSE, args |-> <<>>, kwargs |-> <<>>]
Mark(args, kwargs) == [present |-> TRUE, args |-> args, kwargs |-> kwargs]
Kw(k, a) == [key |-> k, val |-> a]

\* A result, or the exception raised instead.
Ok(v) == [exc |-> "none", val |-> v]
Raise(e) == [exc |-> e, val |-> <<>>]

\* tuple(arg): the elements of the iterable, in iteration order.
RECURSIVE tuple(_)
tuple(it) == IF it = <<>> THEN <<>> ELSE <<Head(it)>> \o tuple(Tail(it))

\* tuple(sorted(set(arg))) in place of tuple(arg).
RECURSIVE SortedSeq(_)
SortedSeq(S) ==
    IF S = {} THEN <<>>
    ELSE LET m == CHOOSE x \in S : \A y \in S : x <= y
         IN  <<m>> \o SortedSeq(S \ {m})

_as_tuple_sorted_set(arg) ==
    IF arg.iter THEN SortedSeq({arg.v[i] : i \in 1 .. Len(arg.v)}) ELSE <<arg.v[1]>>

_as_tuple(arg) == IF arg.iter THEN tuple(arg.v) ELSE <<arg.v[1]>>

\* The positional argument read without looking at the keywords.
_parse_marker_nprocs_positional_first(m) ==
    IF Len(m.args) = 1
    THEN Ok(_as_tuple(m.args[1]))
    ELSE IF Len(m.kwargs) = 1 /\ Len(m.args) = 0
    THEN IF m.kwargs[1].key = "nprocs"
         THEN Ok(_as_tuple(m.kwargs[1].val))
         ELSE Raise("KeyError")
    ELSE IF Len(m.args) = 0 /\ Len(m.kwargs) = 0
    THEN Ok(<<DefaultNprocs>>)
    ELSE Raise("UsageError")

_parse_marker_nprocs(m) ==
    IF Len(m.args) = 1 /\ Len(m.kwargs) = 0
    THEN Ok(_as_tuple(m.args[1]))
    ELSE IF Len(m.kwargs) = 1 /\ Len(m.args) = 0
    THEN IF m.kwargs[1].key = "nprocs"
         THEN Ok(_as_tuple(m.kwargs[1].val))
         ELSE Raise("KeyError")
    ELSE IF Len(m.args) = 0 /\ Len(m.kwargs) = 0
    THEN Ok(<<DefaultNprocs>>)
    ELSE Raise("UsageError")

\* An item: its closest parallel marker and callspec.params["_nprocs"]
\* (<<>> when the item was not parametrised over _nprocs).
Item(m, cs) == [marker |-> m, callspec |-> cs]

_extract_nprocs_for_single_test(item) ==
    IF item.callspec # <<>>
    THEN [exc |-> "none", val |-> item.callspec[1]]
    ELSE LET p == _parse_marker_nprocs(item.marker)
         IN  IF p.exc # "none" THEN [exc |-> p.exc, val |-> 0]
             ELSE IF Len(p.val) # 1 THEN [exc |-> "ValueError", val |-> 0]
             ELSE [exc |-> "none", val |-> p.val[1]]

\* ---------------------------------------------------------- test generation
\* str(n) of an integer: its decimal numeral.
Digit == <<"0", "1", "2", "3", "4", "5", "6", "7", "8", "9">>

RECURSIVE Numeral(_)
Numeral(n) == IF n < 10 THEN Digit[n + 1]
              ELSE Numeral(n \div 10) \o Digit[(n % 10) + 1]

str(n) == IF n < 0 THEN "-" \o Numeral(-n) ELSE Numeral(n)

\* int(s) of an environment string: the integer whose numeral s is, and
\* ValueError for a string that is no numeral.
int(s) ==
    IF \E k \in (-MaxCeil) .. MaxCeil : str(k) = s
    THEN Ok(CHOOSE k \in (-MaxCeil) .. MaxCeil : str(k) = s)
    ELSE Raise("ValueError")

\* os.environ's entry for MAX_NPROCS_FLAG.
Unset == [set |-> FALSE, val |-> ""]
SetTo(v) == [set |-> TRUE, val |-> v]

\* "for nprocs in nprocss: if nprocs > max_nprocs: raise pytest.UsageError"
ExceedsCeiling_or_equals(nprocss, max_nprocs) ==
    \E j \in 1 .. Len(nprocss) : nprocss[j] >= max_nprocs

ExceedsCeiling(nprocss, max_nprocs) ==
    \E j \in 1 .. Len(nprocss) : nprocss[j] > max_nprocs

\* "Only label tests if more than one parallel size is requested"
Parametrised_always(nprocss) == Len(nprocss) >= 1

Parametrised(nprocss) == Len(nprocss) > 1

\* A test identity: its id suffix ("": none) and callspec.params["_nprocs"].
Test(id, cs) == [id |-> id, _nprocs |-> cs]
Unlabelled == <<Test("", <<>>)>>

\* ids=lambda n: f"nprocs={n}"
ids(n) == "nprocs=" \o str(n)

\* metafunc.parametrize("_nprocs", nprocss, ids=...): one identity per
\* element of nprocss, in the order of nprocss.
parametrize(nprocss) ==
    [j \in 1 .. Len(nprocss) |-> Test(ids(nprocss[j]), <<nprocss[j]>>)]

pytest_generate_tests(m, env) ==
    IF ~m.present THEN Ok(Unlabelled)
    ELSE LET nprocss == _parse_marker_nprocs(m)
             max_nprocs == int(env.val)
         IN  IF nprocss.exc # "none" THEN Raise(nprocss.exc)
             ELSE IF env.set /\ max_nprocs.exc # "none" THEN Raise(max_nprocs.exc)
             ELSE IF env.set /\ ExceedsCeiling(nprocss.val, max_nprocs.val)
             THEN Raise("UsageError")
             ELSE IF Parametrised(nprocss.val) THEN Ok(parametrize(nprocss.val))
             ELSE Ok(Unlabelled)

\* ------------------------------------------------- launch/detection at setup
\* What the hook leaves behind: the exception it raised, item.obj and the
\* command the callback closes over.
NoCmd == [first |-> 0, rest |-> 0, genv |-> FALSE, test |-> 0]
SetupResult(e, o, c) == [exc |-> e, obj |-> o, cmd |-> c]
Unmodified == SetupResult("none", "test_body", NoCmd)
SetupRaises(e) == SetupResult(e, "test_body", NoCmd)

\* cmd = mpiexec -n 1 -genv CHILD_PROCESS_FLAG 1 python -m pytest <test>
\*       : -n {nprocs-1} python -m pytest <test>
MpiexecCmd_nprocs_more(nprocs, id) ==
    [first |-> 1, rest |-> nprocs, genv |-> TRUE, test |-> id]

MpiexecCmd(nprocs, id) ==
    [first |-> 1, rest |-> nprocs - 1, genv |-> TRUE, test |-> id]

_set_parallel_callback_always(item, id) ==
    LET n == _extract_nprocs_for_single_test(item)
    IN  IF n.exc # "none" THEN SetupRaises(n.exc)
        ELSE SetupResult("none", "parallel_callback", MpiexecCmd(n.val, id))

_set_parallel_callback(item, id) ==
    LET n == _extract_nprocs_for_single_test(item)
    IN  IF n.exc # "none" THEN SetupRaises(n.exc)
        ELSE IF n.val = 1 THEN Unmodified
        ELSE SetupResult("none", "parallel_callback", MpiexecCmd(n.val, id))

_is_parallel_child_process_never(env) == FALSE

_is_parallel_child_process(env) == env

\* "if nprocs != MPI.COMM_WORLD.size: raise pytest.UsageError"
CountsDiffer_fewer(nprocs, sz) == nprocs < sz

CountsDiffer(nprocs, sz) == nprocs # sz

\* The hook without its "assert not _is_parallel_child_process()".
pytest_runtest_setup_no_assert(item, id, sz, env, inuse) ==
    IF ~inuse THEN Unmodified
    ELSE IF item.marker.present
    THEN IF sz = 1
         THEN _set_parallel_callback(item, id)
         ELSE IF _is_parallel_child_process(env)
         THEN Unmodified
         ELSE LET n == _extract_nprocs_for_single_test(item)
              IN  IF n.exc # "none" THEN SetupRaises(n.exc)
                  ELSE IF CountsDiffer(n.val, sz) THEN SetupRaises("UsageError")
                  ELSE Unmodified
    ELSE IF sz # 1 THEN SetupRaises("UsageError")
         ELSE Unmodified

pytest_runtest_setup(item, id, sz, env, inuse) ==
    IF ~inuse THEN Unmodified
    ELSE IF item.marker.present
    THEN IF sz = 1
         THEN IF _is_parallel_child_process(env)
              THEN SetupRaises("AssertionError")
              ELSE _set_parallel_callback(item, id)
         ELSE IF _is_parallel_child_process(env)
         THEN Unmodified
         ELSE LET n == _extract_nprocs_for_single_test(item)
              IN  IF n.exc # "none" THEN SetupRaises(n.exc)
                  ELSE IF CountsDiffer(n.val, sz) THEN SetupRaises("UsageError")
                  ELSE Unmodified
    ELSE IF sz # 1 THEN SetupRaises("UsageError")
         ELSE Unmodified

\* subprocess.run(cmd, check=True): raises when the return code is not zero.
subprocess_run_unchecked(status) == "none"

subprocess_run(status) == IF status # 0 THEN "CalledProcessError" ELSE "none"

\* --------------------------------------------------------- parallel_assert
\* Line 39: result = assertion() if participating else True.
Invokes(participating) == participating
Contribution_evaluated(participating, value) == value

Contribution(participating, value) == IF participating THEN value ELSE TRUE

\* Python's min over booleans (False < True), the first minimal element.
RECURSIVE min(_)
min(s) == IF Len(s) = 1 THEN s[1]
          ELSE LET m == min(Tail(s)) IN IF (~m) /\ s[1] THEN m ELSE s[1]

\* "if not min(all_results): raise AssertionError"
Raises(results) == ~min(results)

\* [rank for rank, result in enumerate(all_results) if not result]
RECURSIVE FailingFrom(_, _)
FailingFrom(s, rank) ==
    IF s = <<>> THEN <<>>
    ELSE (IF ~Head(s) THEN <<rank>> ELSE <<>>) \o FailingFrom(Tail(s), rank + 1)

FailingRanks_from_one(s) == FailingFrom(s, 1)

FailingRanks(s) == FailingFrom(s, 0)

\* ------------------------------------------------------------ the sessions
Ranks == 0 .. (size - 1)

\* The outcome of one item: the phase and exception that failed it ("none":
\* it passed) and the callable that ran in its call phase.
Report(w, e, o) == [when |-> w, exc |-> e, ran |-> o]

\* One allgather entered by a rank: the call site, the participating
\* argument, whether assertion() was invoked, and the contribution.
Call(st, p, v) == [site |-> st, participating |-> p, invoked |-> Invokes(p),
                   val |-> Contribution(p, v)]

NoCall == [site |-> 0, participating |-> TRUE, invoked |-> FALSE, val |-> TRUE]

Allgather(v) == [kind |-> "allgather", val |-> v]
Barrier == [kind |-> "barrier", val |-> TRUE]

ItemKinds ==
    {Item(NoMarker, <<>>), Item(Mark(<<>>, <<>>), <<>>)}
    \cup {Item(Mark(<<IntArg(k)>>, <<>>), <<>>) : k \in 1 .. MaxNprocs}
    \cup {Item(Mark(<<IterArg(<<1, MaxNprocs>>)>>, <<>>), <<MaxNprocs>>)}

ItemSeqs == UNION {[1 .. n -> ItemKinds] : n \in 1 .. MaxItems}

\* Every process starts at collection, with the module's globals as imported.
RanksStart(at) ==
    /\ _plugin_in_use = [r \in Ranks |-> FALSE]
    /\ pc = [r \in Ranks |-> at]
    /\ cur = [r \in Ranks |-> 1]
    /\ obj = [r \in Ranks |-> "test_body"]
    /\ cmd = [r \in Ranks |-> NoCmd]
    /\ finalizer = [r \in Ranks |-> FALSE]
    /\ reports = [r \in Ranks |-> <<>>]
    /\ point = [r \in Ranks |-> 0]
    /\ skipped = [r \in Ranks |-> {}]
    /\ ncalls = [r \in Ranks |-> 0]
    /\ last = [r \in Ranks |-> NoCall]
    /\ all_results = [r \in Ranks |-> <<>>]
    /\ failing = [r \in Ranks |-> <<>>]
    /\ slot = [r \in Ranks |-> Barrier]
    /\ waiting = [r \in Ranks |-> FALSE]
    /\ inbox = [r \in Ranks |-> <<>>]
    /\ launches = <<>>
    /\ returncode = [r \in Ranks |-> 0]

RanksInit == RanksStart("collect")

\* mpispawn.py before its first loop: n, k, m, comm_list = [], status = 0.
SpawnIdle ==
    /\ ii = [r \in Ranks |-> 0]
    /\ inSpawn = [r \in Ranks |-> FALSE]
    /\ comm_list = <<>>
    /\ mpispawn_status = [r \in Ranks |-> 0]
    /\ done = 0
    /\ reported = {}
    /\ exited = [r \in Ranks |-> <<>>]

GenIdle == environ = Unset /\ generated = Raise("idle")
ParseIdle == marker = NoMarker /\ parsed = Raise("idle") /\ GenIdle

Init ==
    /\ size \in 1 .. MaxSize
    /\ child \in BOOLEAN
    /\ items \in ItemSeqs
    /\ sites = MaxCalls
    /\ RanksInit
    /\ ParseIdle
    /\ SpawnIdle

\* pytest_collection_modifyitems: _plugin_in_use, then one parallel[n] marker
\* per parallel item (an item without a single process count aborts collection).
AnyParallel_all(its) == \A i \in 1 .. Len(its) : its[i].marker.present

AnyParallel(its) == \E i \in 1 .. Len(its) : its[i].marker.present

CollectionOk(its) ==
    \A i \in 1 .. Len(its) :
        its[i].marker.present => _extract_nprocs_for_single_test(its[i]).exc = "none"

pytest_collection_modifyitems(r) ==
    /\ pc[r] = "collect"
    /\ _plugin_in_use' = [_plugin_in_use EXCEPT ![r] = AnyParallel(items)]
    /\ pc' = [pc EXCEPT ![r] = IF CollectionOk(items) THEN "setup" ELSE "end"]
    /\ UNCHANGED <<envVars, cur, itemVars, reports, bodyVars, mpiVars, launchVars,
                   parseVars, spawnVars>>

\* "if _plugin_in_use: request.addfinalizer(lambda: MPI.COMM_WORLD.barrier())"
barrier_finalize_never(inuse) == FALSE

barrier_finalize(inuse) == inuse

\* The setup phase of one item: the pytest_runtest_setup hook, then (when it
\* did not raise) the autouse fixture barrier_finalize.
Setup(r) ==
    /\ pc[r] = "setup"
    /\ LET s == pytest_runtest_setup(items[cur[r]], cur[r], size, child,
                                     _plugin_in_use[r])
       IN  /\ obj' = [obj EXCEPT ![r] = s.obj]
           /\ cmd' = [cmd EXCEPT ![r] = s.cmd]
           /\ IF s.exc # "none"
              THEN /\ reports' = [reports EXCEPT ![r] =
                                     Append(@, Report("setup", s.exc, "none"))]
                   /\ finalizer' = [finalizer EXCEPT ![r] = FALSE]
                   /\ pc' = [pc EXCEPT ![r] = "teardown"]
              ELSE /\ reports' = reports
                   /\ finalizer' = [finalizer EXCEPT ![r] =
                                       barrier_finalize(_plugin_in_use[r])]
                   /\ pc' = [pc EXCEPT ![r] = "call"]
    /\ point' = [point EXCEPT ![r] = 0]
    /\ skipped' = [skipped EXCEPT ![r] = {}]
    /\ ncalls' = [ncalls EXCEPT ![r] = 0]
    /\ last' = [last EXCEPT ![r] = NoCall]
    /\ all_results' = [all_results EXCEPT ![r] = <<>>]
    /\ failing' = [failing EXCEPT ![r] = <<>>]
    /\ UNCHANGED <<envVars, _plugin_in_use, cur, mpiVars, launchVars, parseVars, spawnVars>>

\* What the rank does once the item's teardown is over: the next item, or the
\* end of the session.
Advance(r) ==
    /\ cur' = [cur EXCEPT ![r] = @ + 1]
    /\ pc' = [pc EXCEPT ![r] = IF cur[r] < Len(items) THEN "setup" ELSE "end"]

\* assertion() raising only after the rank has entered the allgather.
parallel_assert_gather_first(r, participating, value) ==
    /\ pc[r] = "call"
    /\ obj[r] = "test_body"
    /\ point[r] < MaxCalls
    /\ point' = [point EXCEPT ![r] = @ + 1]
    /\ slot' = [slot EXCEPT ![r] =
                    Allgather(Contribution(participating, value = "True"))]
    /\ waiting' = [waiting EXCEPT ![r] = TRUE]
    /\ ncalls' = [ncalls EXCEPT ![r] = @ + 1]
    /\ last' = [last EXCEPT ![r] =
                    Call(point[r] + 1, participating, value = "True")]
    /\ IF Invokes(participating) /\ value = "raise"
       THEN /\ reports' = [reports EXCEPT ![r] =
                              Append(@, Report("call", "Exception", obj[r]))]
            /\ pc' = [pc EXCEPT ![r] = "teardown"]
       ELSE /\ pc' = [pc EXCEPT ![r] = "gather"]
            /\ UNCHANGED reports
    /\ UNCHANGED <<envVars, _plugin_in_use, cur, itemVars, skipped, all_results,
                   failing, inbox, launchVars, parseVars, spawnVars>>

\* parallel_assert, lines 39-40: the local contribution, then entering
\* COMM_WORLD.allgather.  value = "raise": assertion() raises instead of
\* returning, and the rank leaves the call before the exchange.
parallel_assert(r, participating, value) ==
    /\ pc[r] = "call"
    /\ obj[r] = "test_body"
    /\ point[r] < MaxCalls
    /\ point' = [point EXCEPT ![r] = @ + 1]
    /\ IF Invokes(participating) /\ value = "raise"
       THEN /\ reports' = [reports EXCEPT ![r] =
                              Append(@, Report("call", "Exception", obj[r]))]
            /\ pc' = [pc EXCEPT ![r] = "teardown"]
            /\ UNCHANGED <<slot, waiting, ncalls, last>>
       ELSE /\ slot' = [slot EXCEPT ![r] =
                           Allgather(Contribution(participating, value = "True"))]
            /\ waiting' = [waiting EXCEPT ![r] = TRUE]
            /\ ncalls' = [ncalls EXCEPT ![r] = @ + 1]
            /\ last' = [last EXCEPT ![r] =
                           Call(point[r] + 1, participating, value = "True")]
            /\ pc' = [pc EXCEPT ![r] = "gather"]
            /\ UNCHANGED reports
    /\ UNCHANGED <<envVars, _plugin_in_use, cur, itemVars, skipped, all_results,
                   failing, inbox, launchVars, parseVars, spawnVars>>

\* The rank's control flow passes a call site of the body without calling
\* parallel_assert there.
SkipCall(r) ==
    /\ pc[r] = "call"
    /\ obj[r] = "test_body"
    /\ point[r] < MaxCalls
    /\ point' = [point EXCEPT ![r] = @ + 1]
    /\ skipped' = [skipped EXCEPT ![r] = @ \cup {point[r] + 1}]
    /\ UNCHANGED <<envVars, _plugin_in_use, pc, cur, itemVars, reports, ncalls,
                   last, all_results, failing, mpiVars, launchVars, parseVars, spawnVars>>

\* The verdict taken from the rank's own contribution in place of
\* min(all_results).
parallel_assert_return_local(r) ==
    /\ pc[r] = "gather"
    /\ ~waiting[r]
    /\ all_results' = [all_results EXCEPT ![r] = inbox[r]]
    /\ inbox' = [inbox EXCEPT ![r] = <<>>]
    /\ IF ~last[r].val
       THEN /\ failing' = [failing EXCEPT ![r] = FailingRanks(inbox[r])]
            /\ reports' = [reports EXCEPT ![r] =
                              Append(@, Report("call", "AssertionError", obj[r]))]
            /\ pc' = [pc EXCEPT ![r] = "teardown"]
       ELSE /\ pc' = [pc EXCEPT ![r] = "call"]
            /\ UNCHANGED <<failing, reports>>
    /\ UNCHANGED <<envVars, _plugin_in_use, cur, itemVars, point, skipped, ncalls,
                   last, slot, waiting, launchVars, parseVars, spawnVars>>

\* parallel_assert, lines 40-46: allgather returns, min decides.
parallel_assert_return(r) ==
    /\ pc[r] = "gather"
    /\ ~waiting[r]
    /\ all_results' = [all_results EXCEPT ![r] = inbox[r]]
    /\ inbox' = [inbox EXCEPT ![r] = <<>>]
    /\ IF Raises(inbox[r])
       THEN /\ failing' = [failing EXCEPT ![r] = FailingRanks(inbox[r])]
            /\ reports' = [reports EXCEPT ![r] =
                              Append(@, Report("call", "AssertionError", obj[r]))]
            /\ pc' = [pc EXCEPT ![r] = "teardown"]
       ELSE /\ pc' = [pc EXCEPT ![r] = "call"]
            /\ UNCHANGED <<failing, reports>>
    /\ UNCHANGED <<envVars, _plugin_in_use, cur, itemVars, point, skipped, ncalls,
                   last, slot, waiting, launchVars, parseVars, spawnVars>>

\* The test body returns normally.
BodyReturn(r) ==
    /\ pc[r] = "call"
    /\ obj[r] = "test_body"
    /\ reports' = [reports EXCEPT ![r] = Append(@, Report("call", "none", obj[r]))]
    /\ pc' = [pc EXCEPT ![r] = "teardown"]
    /\ UNCHANGED <<envVars, _plugin_in_use, cur, itemVars, bodyVars, mpiVars,
                   launchVars, parseVars, spawnVars>>

\* The callback marking its own process (os.environ) in place of the
\* processes mpiexec starts (-genv).
parallel_callback_sets_environ(r) ==
    /\ pc[r] = "call"
    /\ obj[r] = "parallel_callback"
    /\ launches' = Append(launches, cmd[r])
    /\ child' = TRUE
    /\ pc' = [pc EXCEPT ![r] = "launcher"]
    /\ UNCHANGED <<items, size, sites, _plugin_in_use, cur, itemVars, reports,
                   bodyVars, mpiVars, returncode, parseVars, spawnVars>>

\* parallel_callback: subprocess.run starts mpiexec and blocks ...
parallel_callback(r) ==
    /\ pc[r] = "call"
    /\ obj[r] = "parallel_callback"
    /\ launches' = Append(launches, cmd[r])
    /\ pc' = [pc EXCEPT ![r] = "launcher"]
    /\ UNCHANGED <<envVars, _plugin_in_use, cur, itemVars, reports, bodyVars,
                   mpiVars, returncode, parseVars, spawnVars>>

\* ... until mpiexec has exited with some status.
parallel_callback_return(r, status) ==
    /\ pc[r] = "launcher"
    /\ returncode' = [returncode EXCEPT ![r] = status]
    /\ reports' = [reports EXCEPT ![r] =
                      Append(@, Report("call", subprocess_run(status), obj[r]))]
    /\ pc' = [pc EXCEPT ![r] = "teardown"]
    /\ UNCHANGED <<envVars, _plugin_in_use, cur, itemVars, bodyVars, mpiVars,
                   launches, parseVars, spawnVars>>

\* Teardown: the finalizer of barrier_finalize enters COMM_WORLD.barrier().
Teardown(r) ==
    /\ pc[r] = "teardown"
    /\ IF finalizer[r]
       THEN /\ slot' = [slot EXCEPT ![r] = Barrier]
            /\ waiting' = [waiting EXCEPT ![r] = TRUE]
            /\ pc' = [pc EXCEPT ![r] = "barrier"]
            /\ UNCHANGED cur
       ELSE /\ Advance(r)
            /\ UNCHANGED <<slot, waiting>>
    /\ UNCHANGED <<envVars, _plugin_in_use, itemVars, reports, bodyVars, inbox,
                   launchVars, parseVars, spawnVars>>

barrier_return(r) ==
    /\ pc[r] = "barrier"
    /\ ~waiting[r]
    /\ Advance(r)
    /\ UNCHANGED <<envVars, _plugin_in_use, itemVars, reports, bodyVars, mpiVars,
                   launchVars, parseVars, spawnVars>>

\* The MPI runtime: a collective completes when every rank of COMM_WORLD has
\* entered it; each rank then holds the contributions in rank order.
Gathered == [i \in 1 .. size |-> slot[i - 1].val]

Matched_any_collective == \A r \in Ranks : waiting[r]

Matched == /\ \A r \in Ranks : waiting[r]
           /\ \A r \in Ranks : slot[r].kind = slot[0].kind

Exchange ==
    /\ Matched
    /\ waiting' = [r \in Ranks |-> FALSE]
    /\ inbox' = [r \in Ranks |-> IF slot[0].kind = "allgather" THEN Gathered ELSE <<>>]
    /\ UNCHANGED <<envVars, _plugin_in_use, pc, cur, itemVars, reports, bodyVars,
                   slot, launchVars, parseVars, spawnVars>>

Values == {"True", "False", "raise"}
Statuses == (-1) .. MaxStatus

\* A session whose test bodies make no collective call: every launch
\* configuration, every item of a collection of up to MaxItems items.
Next ==
    \/ \E r \in Ranks : pytest_collection_modifyitems(r)
    \/ \E r \in Ranks : Setup(r)
    \/ \E r \in Ranks : BodyReturn(r)
    \/ \E r \in Ranks : parallel_callback(r)
    \/ \E r \in Ranks, st \in Statuses : parallel_callback_return(r, st)
    \/ \E r \in Ranks : Teardown(r)
    \/ \E r \in Ranks : barrier_return(r)
    \/ Exchange

Spec == Init /\ [][Next]_vars

\* A group whose ranks run one item in place, the body of each rank passing
\* up to MaxCalls call sites of parallel_assert: a group the launcher started
\* on a parallel item (the barrier closes the test), or processes running a
\* serial item in a session without parallel markers (no barrier).
GroupItemKinds == {Item(NoMarker, <<>>), Item(Mark(<<>>, <<>>), <<>>)}

RunsInPlace(item, sz, env) ==
    pytest_runtest_setup(item, 1, sz, env, item.marker.present) = Unmodified

InitGroup ==
    /\ Init
    /\ Len(items) = 1
    /\ items[1] \in GroupItemKinds
    /\ child = items[1].marker.present
    /\ RunsInPlace(items[1], size, child)

NextGroup ==
    \/ \E r \in Ranks : pytest_collection_modifyitems(r)
    \/ \E r \in Ranks : Setup(r)
    \/ \E r \in Ranks, p \in BOOLEAN, v \in Values : parallel_assert(r, p, v)
    \/ \E r \in Ranks : SkipCall(r)
    \/ \E r \in Ranks : parallel_assert_return(r)
    \/ \E r \in Ranks : BodyReturn(r)
    \/ \E r \in Ranks : Teardown(r)
    \/ \E r \in Ranks : barrier_return(r)
    \/ Exchange

SpecGroup == InitGroup /\ [][NextGroup]_vars

\* A group whose ranks all run the same test body in place: the body makes
\* `sites` calls of parallel_assert, one after the other, and every rank
\* makes each of them (with its own participating flag and its own value of
\* assertion(), which returns).  Every process keeps running its code and
\* the MPI runtime completes a collective every rank has entered.
InitSame ==
    /\ size \in 1 .. MaxSize
    /\ items \in [1 .. 1 -> GroupItemKinds]
    /\ child = items[1].marker.present
    /\ RunsInPlace(items[1], size, child)
    /\ sites \in 0 .. MaxCalls
    /\ RanksInit
    /\ ParseIdle
    /\ SpawnIdle

SameBodyCall(r, participating, value) ==
    /\ point[r] < sites
    /\ parallel_assert(r, participating, value)

SameBodyReturn(r) ==
    /\ point[r] = sites
    /\ BodyReturn(r)

Returned == {"True", "False"}

RankStep(r) ==
    \/ pytest_collection_modifyitems(r)
    \/ Setup(r)
    \/ \E p \in BOOLEAN, v \in Returned : SameBodyCall(r, p, v)
    \/ parallel_assert_return(r)
    \/ SameBodyReturn(r)
    \/ Teardown(r)
    \/ barrier_return(r)

NextSame ==
    \/ \E r \in Ranks : pytest_collection_modifyitems(r)
    \/ \E r \in Ranks : Setup(r)
    \/ \E r \in Ranks, p \in BOOLEAN, v \in Returned : SameBodyCall(r, p, v)
    \/ \E r \in Ranks : parallel_assert_return(r)
    \/ \E r \in Ranks : SameBodyReturn(r)
    \/ \E r \in Ranks : Teardown(r)
    \/ \E r \in Ranks : barrier_return(r)
    \/ Exchange

FairSame ==
    /\ \A r \in 0 .. (MaxSize - 1) : WF_vars(r \in Ranks /\ RankStep(r))
    /\ WF_vars(Exchange)

SpecSame == InitSame /\ [][NextSame]_vars /\ FairSame

\* Marker resolution on its own: every marker of the bounded universe.
Ints == {IntArg(k) : k \in 0 .. MaxVal}
Iterables == {IterArg(s) : s \in UNION {[1 .. n -> 0 .. MaxVal] : n \in 0 .. MaxLen}}
ArgValues == Ints \cup Iterables

Markers ==
    {Mark(<<>>, <<>>)}
    \cup {Mark(<<a>>, <<>>) : a \in ArgValues}
    \cup {Mark(<<>>, <<Kw(k, a)>>) : k \in {"nprocs", "n"}, a \in ArgValues}
    \cup {Mark(<<a>>, <<Kw("nprocs", b)>>) : a \in Ints, b \in Ints}
    \cup {Mark(<<a, b>>, <<>>) : a \in Ints, b \in Ints}
    \cup {Mark(<<>>, <<Kw("nprocs", a), Kw("n", b)>>) : a \in Ints, b \in Ints}

InitParse ==
    /\ size = 1
    /\ child = FALSE
    /\ items = <<Item(NoMarker, <<>>)>>
    /\ sites = MaxCalls
    /\ RanksInit
    /\ marker \in Markers
    /\ parsed = Raise("idle")
    /\ GenIdle
    /\ SpawnIdle

ParseMarker ==
    /\ parsed = Raise("idle")
    /\ parsed' = _parse_marker_nprocs(marker)
    /\ UNCHANGED <<sessionVars, marker, environ, generated, spawnVars>>

NextParse == ParseMarker

SpecParse == InitParse /\ [][NextParse]_vars

\* Test generation and the session that follows it, in a root single process:
\* one test function with any marker of the bounded universe (or none) and
\* any setting of MAX_NPROCS_FLAG; pytest_generate_tests yields the items
\* the session collects and runs.  A generation that raises is a collection
\* error: the function yields no item and the session runs nothing.
EnvValues == {Unset, SetTo("many")} \cup {SetTo(str(k)) : k \in 0 .. MaxCeil}

InitGen ==
    /\ size = 1
    /\ child = FALSE
    /\ items = <<>>
    /\ sites = MaxCalls
    /\ RanksStart("generate")
    /\ marker \in Markers \cup {NoMarker}
    /\ parsed = Raise("idle")
    /\ environ \in EnvValues
    /\ generated = Raise("idle")
    /\ SpawnIdle

Generate(r) ==
    /\ pc[r] = "generate"
    /\ LET g == pytest_generate_tests(marker, environ)
       IN  /\ generated' = g
           /\ items' = [j \in 1 .. Len(g.val) |-> Item(marker, g.val[j]._nprocs)]
           /\ pc' = [pc EXCEPT ![r] = IF g.exc = "none" THEN "collect" ELSE "end"]
    /\ UNCHANGED <<size, child, sites, _plugin_in_use, cur, itemVars, reports,
                   bodyVars, mpiVars, launchVars, marker, parsed, environ,
                   spawnVars>>

NextGen ==
    \/ \E r \in Ranks : Generate(r)
    \/ \E r \in Ranks : pytest_collection_modifyitems(r)
    \/ \E r \in Ranks : Setup(r)
    \/ \E r \in Ranks : BodyReturn(r)
    \/ \E r \in Ranks : parallel_callback(r)
    \/ \E r \in Ranks, st \in Statuses : parallel_callback_return(r, st)
    \/ \E r \in Ranks : Teardown(r)
    \/ \E r \in Ranks : barrier_return(r)
    \/ Exchange

SpecGen == InitGen /\ [][NextGen]_vars

\* ------------------------------------------------------------- mpispawn.py
\* Every rank of COMM_WORLD runs the script: the spawning loop, whose
\* COMM_WORLD.Spawn is collective over the n ranks, then on rank 0 the
\* gathering loop and sys.exit(status).  A spawned process reports an exit
\* status, 0 .. MaxStatus.
GroupProcs == 2

\* m = n // k
Splits(n) == n \div GroupProcs

\* One Spawn: "--splits", str(m), "--group", str(ii + 1), maxprocs = k.
Group(i, m) == [group |-> i + 1, splits |-> m, maxprocs |-> GroupProcs]

\* status = spawn_status[-1] in place of the maximum.
RECURSIVE max_last(_)
max_last(s) == IF Len(s) = 1 THEN s[1] ELSE max_last(Tail(s))

\* Python's max of a non-empty list.
RECURSIVE max(_)
max(s) == IF Len(s) = 1 THEN s[1]
          ELSE LET t == max(Tail(s)) IN IF s[1] >= t THEN s[1] ELSE t

ChildStatuses == 0 .. MaxStatus

InitSpawn ==
    /\ size \in 1 .. MaxWorld
    /\ child = FALSE
    /\ items = <<>>
    /\ sites = MaxCalls
    /\ RanksStart("end")
    /\ ParseIdle
    /\ SpawnIdle

\* Line 14: the rank enters COMM_WORLD.Spawn of iteration ii.
SpawnEnter(r) ==
    /\ exited[r] = <<>>
    /\ ~inSpawn[r]
    /\ ii[r] < Splits(size)
    /\ inSpawn' = [inSpawn EXCEPT ![r] = TRUE]
    /\ UNCHANGED <<sessionVars, parseVars, ii, comm_list, mpispawn_status, done,
                   reported, exited>>

\* Lines 12-15: every rank has entered the Spawn of this iteration; one
\* group of k processes starts, and every rank appends its communicator.
Spawn ==
    /\ \A r \in Ranks : inSpawn[r]
    /\ comm_list' = Append(comm_list, Group(ii[0], Splits(size)))
    /\ inSpawn' = [r \in Ranks |-> FALSE]
    /\ ii' = [r \in Ranks |-> ii[r] + 1]
    /\ UNCHANGED <<sessionVars, parseVars, mpispawn_status, done, reported, exited>>

\* Lines 19-22, rank 0: gather the statuses of the next group, fold them
\* into status, disconnect.
Gather(spawn_status) ==
    /\ exited[0] = <<>>
    /\ ~inSpawn[0]
    /\ ii[0] = Splits(size)
    /\ done < Len(comm_list)
    /\ mpispawn_status' = [mpispawn_status EXCEPT ![0] = max(<<@>> \o spawn_status)]
    /\ reported' = reported \cup {spawn_status[j] : j \in 1 .. Len(spawn_status)}
    /\ done' = done + 1
    /\ UNCHANGED <<sessionVars, parseVars, ii, inSpawn, comm_list, exited>>

\* Lines 24-25: rank 0 calls sys.exit(status); the other ranks run off the
\* end of the script.
Exit(r) ==
    /\ exited[r] = <<>>
    /\ ~inSpawn[r]
    /\ ii[r] = Splits(size)
    /\ r = 0 => done = Len(comm_list)
    /\ exited' = [exited EXCEPT ![r] = IF r = 0 THEN <<mpispawn_status[0]>> ELSE <<0>>]
    /\ UNCHANGED <<sessionVars, parseVars, ii, inSpawn, comm_list, mpispawn_status,
                   done, reported>>

NextSpawn ==
    \/ \E r \in Ranks : SpawnEnter(r)
    \/ Spawn
    \/ \E spawn_status \in [1 .. GroupProcs -> ChildStatuses] : Gather(spawn_status)
    \/ \E r \in Ranks : Exit(r)

SpecSpawn == InitSpawn /\ [][NextSpawn]_vars

\* ====================================================================== claims
\* What the claims speak of, read off the items and the reports.
Marked(it) == it.marker.present

\* The process count a resolved test instance requires.
Required(it) ==
    IF it.callspec # <<>> THEN it.callspec[1]
    ELSE IF it.marker.args = <<>> THEN DefaultNprocs
    ELSE it.marker.args[1].v[1]

RootSingle == size = 1 /\ ~child
RootGroup == size > 1 /\ ~child
SpawnedChild == child

Done(r, i) == Len(reports[r]) >= i
Rejected(r, i) == reports[r][i].when = "setup" /\ reports[r][i].exc = "UsageError"
RaisedAtSetup(r, i) == reports[r][i].when = "setup"
RanInPlace(r, i) == reports[r][i].when = "call" /\ reports[r][i].ran = "test_body"
Spawned(r, i) == reports[r][i].when = "call" /\ reports[r][i].ran = "parallel_callback"

IsFor(i, c) == c.test = i
LaunchesFor(i) == SelectSeq(launches, LAMBDA c : IsFor(i, c))

\* C1: in a root single process (size 1, no child marker) every parallel item
\* requiring nprocs > 1 is launched exactly once, as 1 + (nprocs - 1) processes
\* with the child marker, and its body never runs in the root process.
C1_SpawnExactlyOnce ==
    RootSingle =>
        \A i \in 1 .. Len(items) :
            (Marked(items[i]) /\ Required(items[i]) > 1) =>
                LET L == LaunchesFor(i)
                IN  /\ Len(L) <= 1
                    /\ \A j \in 1 .. Len(L) :
                          /\ L[j].first = 1
                          /\ L[j].rest = Required(items[i]) - 1
                          /\ L[j].first + L[j].rest = Required(items[i])
                          /\ L[j].genv
                    /\ (cur[0] = i /\ pc[0] = "call") => obj[0] = "parallel_callback"
                    /\ (cur[0] = i /\ pc[0] = "launcher") => Len(L) = 1
                    /\ Done(0, i) => (Len(L) = 1 /\ Spawned(0, i))

C1_Witness ==
    /\ RootSingle
    /\ pc[0] = "end"
    /\ \E i \in 1 .. Len(items) :
          /\ Marked(items[i])
          /\ Required(items[i]) = DefaultNprocs
          /\ Len(LaunchesFor(i)) = 1
          /\ Spawned(0, i)

\* C2 as stated: a process with the child marker runs every parallel item in
\* place, for every group size >= 1: no spawn, no rejection, no raise at setup.
C2_ChildAlwaysRunsInPlace ==
    SpawnedChild =>
        /\ launches = <<>>
        /\ \A r \in Ranks : \A i \in 1 .. Len(reports[r]) :
              Marked(items[i]) => RanInPlace(r, i)

\* C2 amended: with the child marker and a group of more than one process
\* every parallel item runs in place whatever nprocs it requires; with the
\* child marker and a group of one process the hook's assertion fails at
\* setup; in neither case is the launcher invoked.
C2_ChildRunsInPlaceInGroup ==
    SpawnedChild =>
        /\ launches = <<>>
        /\ \A r \in Ranks : pc[r] = "call" => obj[r] = "test_body"
        /\ \A r \in Ranks : \A i \in 1 .. Len(reports[r]) :
              Marked(items[i]) =>
                  IF size > 1 THEN RanInPlace(r, i)
                  ELSE RaisedAtSetup(r, i) /\ reports[r][i].exc = "AssertionError"

C2_Witness ==
    /\ SpawnedChild
    /\ size > 1
    /\ \A r \in Ranks : pc[r] = "end"
    /\ \E i \in 1 .. Len(items) :
          /\ Marked(items[i])
          /\ Required(items[i]) # size
          /\ \A r \in Ranks : RanInPlace(r, i)

\* C3: in a pre-launched group (size > 1, no child marker) a parallel item
\* requiring nprocs > 1 is rejected with a UsageError on every rank when
\* nprocs differs from the group size and runs in place when they are equal;
\* the launcher is never invoked.
C3_OuterGroupMatchOrReject ==
    RootGroup =>
        /\ launches = <<>>
        /\ \A r \in Ranks : pc[r] = "call" => obj[r] = "test_body"
        /\ \A r \in Ranks : \A i \in 1 .. Len(reports[r]) :
              (Marked(items[i]) /\ Required(items[i]) > 1) =>
                  IF Required(items[i]) # size THEN Rejected(r, i)
                  ELSE RanInPlace(r, i)

C3_Witness ==
    /\ RootGroup
    /\ \A r \in Ranks : pc[r] = "end"
    /\ \E i, j \in 1 .. Len(items) :
          /\ Marked(items[i]) /\ Required(items[i]) > size
          /\ \A r \in Ranks : Rejected(r, i)
          /\ Marked(items[j]) /\ Required(items[j]) = size
          /\ \A r \in Ranks : RanInPlace(r, j)

\* C4 as stated: a parallel item requiring one process runs in place in every
\* launch state; it is never spawned and never rejected.
C4_OneProcessAlwaysRunsInPlace ==
    \A i \in 1 .. Len(items) :
        (Marked(items[i]) /\ Required(items[i]) = 1) =>
            /\ LaunchesFor(i) = <<>>
            /\ \A r \in Ranks : Done(r, i) => RanInPlace(r, i)

\* C4 amended: a parallel item requiring one process is never spawned; it
\* runs in place in a root single process and in a child group of more than
\* one process; a pre-launched group (size > 1, no child marker) rejects it
\* with a UsageError, 1 differing from the group size, and a process with the
\* child marker and group size 1 fails the hook's assertion at setup.
C4_OneProcessNeverSpawned ==
    \A i \in 1 .. Len(items) :
        (Marked(items[i]) /\ Required(items[i]) = 1) =>
            /\ LaunchesFor(i) = <<>>
            /\ \A r \in Ranks :
                  (cur[r] = i /\ pc[r] = "call") => obj[r] = "test_body"
            /\ \A r \in Ranks : Done(r, i) =>
                  IF RootGroup THEN Rejected(r, i)
                  ELSE IF SpawnedChild /\ size = 1
                  THEN RaisedAtSetup(r, i) /\ reports[r][i].exc = "AssertionError"
                  ELSE RanInPlace(r, i)

C4_Witness ==
    /\ RootSingle
    /\ pc[0] = "end"
    /\ launches = <<>>
    /\ \E i \in 1 .. Len(items) :
          Marked(items[i]) /\ Required(items[i]) = 1 /\ RanInPlace(0, i)

\* C5 as stated: a serial item reaching setup in a group of more than one
\* process is rejected with a UsageError, in every session.
C5_SerialAlwaysRejectedInGroup ==
    size > 1 =>
        \A r \in Ranks : \A i \in 1 .. Len(reports[r]) :
            ~Marked(items[i]) => Rejected(r, i)

\* C5 amended: a serial item reaching setup in a group of more than one
\* process is rejected with a UsageError in every session in which at least
\* one collected item carries a parallel marker; in a session without any
\* the hook returns at once and the item's body runs on every rank.
C5_SerialRejectedWhenPluginInUse ==
    size > 1 =>
        \A r \in Ranks : \A i \in 1 .. Len(reports[r]) :
            ~Marked(items[i]) =>
                IF \E j \in 1 .. Len(items) : Marked(items[j])
                THEN Rejected(r, i)
                ELSE RanInPlace(r, i)

C5_Witness ==
    /\ size > 1
    /\ \A r \in Ranks : pc[r] = "end"
    /\ \E i, j \in 1 .. Len(items) :
          /\ ~Marked(items[i])
          /\ Marked(items[j])
          /\ \A r \in Ranks : Rejected(r, i)

\* C6: the parent's outcome of a spawned item exists only once the launcher
\* has returned, there is one outcome per item, and it is a failure
\* (CalledProcessError) exactly when the return code is not zero.
C6_OutcomeFoldsLauncherStatus ==
    \A r \in Ranks :
        /\ Len(reports[r]) <= cur[r]
        /\ pc[r] \in {"call", "launcher"} => ~Done(r, cur[r])
        /\ (pc[r] = "teardown" /\ Spawned(r, cur[r])) =>
              /\ Len(LaunchesFor(cur[r])) = 1
              /\ reports[r][cur[r]].exc = "none" <=> returncode[r] = 0
              /\ reports[r][cur[r]].exc = "CalledProcessError" <=> returncode[r] # 0

C6_Witness ==
    \E r \in Ranks :
        /\ pc[r] = "teardown"
        /\ Spawned(r, cur[r])
        /\ returncode[r] > 0
        /\ reports[r][cur[r]].exc = "CalledProcessError"

\* ------------------------------------------------ claims on parallel_assert
\* The exchange whose results a rank holds in all_results, by its number.
HasView(r) == all_results[r] # <<>>
ViewRound(r) == IF pc[r] = "gather" THEN ncalls[r] - 1 ELSE ncalls[r]

\* The rank has returned from, or raised out of, its last parallel_assert call.
CompletedCall(r) == ncalls[r] >= 1 /\ pc[r] # "gather"
RaisedAssertion(r) == Done(r, 1) /\ reports[r][1].exc = "AssertionError"
LeftBody(r) == pc[r] \in {"teardown", "barrier", "end"}

Ascending(f) == \A j \in 1 .. Len(f) - 1 : f[j] < f[j + 1]
Elements(f) == {f[j] : j \in 1 .. Len(f)}

\* C7: every exchange hands each rank the same sequence, one contribution
\* per rank in rank order; a rank raises AssertionError exactly when some
\* contribution is false and returns normally otherwise, so all ranks do the
\* same; the message lists exactly the ranks that contributed false,
\* ascending, the same list on every rank.
C7_CollectiveVerdict ==
    \A r \in Ranks :
        CompletedCall(r) =>
            /\ Len(all_results[r]) = size
            /\ \A q \in Ranks :
                  /\ ncalls[q] = ncalls[r] => all_results[r][q + 1] = last[q].val
                  /\ (HasView(q) /\ ViewRound(q) = ncalls[r]) =>
                        all_results[q] = all_results[r]
                  /\ (CompletedCall(q) /\ ncalls[q] = ncalls[r]) =>
                        /\ RaisedAssertion(q) <=> RaisedAssertion(r)
                        /\ failing[q] = failing[r]
            /\ RaisedAssertion(r) <=> \E j \in 1 .. size : ~all_results[r][j]
            /\ RaisedAssertion(r) =>
                  /\ Ascending(failing[r])
                  /\ Elements(failing[r]) = {q \in Ranks : ~all_results[r][q + 1]}
            /\ ~RaisedAssertion(r) => failing[r] = <<>>

C7_Witness ==
    /\ size > 1
    /\ \A r \in Ranks :
          /\ CompletedCall(r)
          /\ last[r].site = 1
          /\ last[r].val = (r = 0)
          /\ RaisedAssertion(r)
          /\ Elements(failing[r]) = Ranks \ {0}

\* C8: a call with participating = false contributes true without invoking
\* assertion(); the rank is in no failing list, and it raises like the others
\* when another rank contributed false.
C8_NonParticipatingContributesTrue ==
    \A r \in Ranks :
        (ncalls[r] >= 1 /\ ~last[r].participating) =>
            /\ last[r].val
            /\ ~last[r].invoked
            /\ (pc[r] = "gather" /\ waiting[r]) => slot[r] = Allgather(TRUE)
            /\ \A q \in Ranks :
                  (HasView(q) /\ ViewRound(q) = ncalls[r]) =>
                      /\ all_results[q][r + 1]
                      /\ CompletedCall(q) => r \notin Elements(failing[q])
            /\ CompletedCall(r) =>
                  (RaisedAssertion(r) <=> \E q \in Ranks : ~all_results[r][q + 1])

C8_Witness ==
    /\ size > 1
    /\ \E r, q \in Ranks :
          /\ r # q
          /\ ~last[r].participating
          /\ CompletedCall(r) /\ CompletedCall(q)
          /\ RaisedAssertion(r) /\ RaisedAssertion(q)
          /\ failing[r] = <<q>>
          /\ failing[q] = <<q>>

\* C9 as stated: when a rank does not call parallel_assert at a call site
\* where another rank does, no rank returns from or raises out of the call
\* made at that site.
DidNotCallAt(s, st) ==
    \/ st \in skipped[s]
    \/ LeftBody(s) /\ point[s] < st
    \/ LeftBody(s) /\ point[s] = st /\ ncalls[s] = 0
    \/ LeftBody(s) /\ point[s] = st /\ ncalls[s] >= 1 /\ last[s].site # st

C9_NoReturnFromSkippedSite ==
    \A r, s \in Ranks :
        DidNotCallAt(s, last[r].site) => ~CompletedCall(r)

\* C9 amended: when a rank has left the test body having entered fewer
\* allgathers than another rank, that other rank blocks in its unmatched
\* exchange: nothing is delivered to it, it neither returns nor raises, and
\* no outcome is reported.  (A rank that passes a call site without calling
\* and calls parallel_assert at a later site does complete the exchange of
\* the others: the calls are paired by order, not by site.)
C9_UnmatchedExchangeBlocks ==
    \A r, s \in Ranks :
        (LeftBody(s) /\ ncalls[s] < ncalls[r]) =>
            /\ pc[r] = "gather"
            /\ waiting[r]
            /\ inbox[r] = <<>>
            /\ ~Done(r, 1)

C9_Witness ==
    \E r, s \in Ranks :
        /\ pc[s] = "barrier" /\ waiting[s]
        /\ pc[r] = "gather" /\ waiting[r]
        /\ ncalls[s] < ncalls[r]
        /\ ~ENABLED NextGroup

\* ---------------------------------------------- claims on marker resolution
SingleInt(m) ==
    \/ Len(m.args) = 1 /\ m.kwargs = <<>> /\ ~m.args[1].iter
    \/ m.args = <<>> /\ Len(m.kwargs) = 1 /\ m.kwargs[1].key = "nprocs"
       /\ ~m.kwargs[1].val.iter
SingleIterable(m) ==
    \/ Len(m.args) = 1 /\ m.kwargs = <<>> /\ m.args[1].iter
    \/ m.args = <<>> /\ Len(m.kwargs) = 1 /\ m.kwargs[1].key = "nprocs"
       /\ m.kwargs[1].val.iter
Given(m) == IF m.args # <<>> THEN m.args[1].v ELSE m.kwargs[1].val.v

\* C10: a single integer k, positional or as the nprocs keyword, resolves to
\* (k,); an iterable resolves to its elements in input order, none dropped or
\* moved; a marker without arguments resolves to (3,).
C10_ResolvesInInputOrder ==
    parsed # Raise("idle") =>
        /\ SingleInt(marker) => parsed = Ok(<<Given(marker)[1]>>)
        /\ SingleIterable(marker) =>
              /\ parsed.exc = "none"
              /\ Len(parsed.val) = Len(Given(marker))
              /\ \A j \in 1 .. Len(parsed.val) : parsed.val[j] = Given(marker)[j]
        /\ (marker.args = <<>> /\ marker.kwargs = <<>>) => parsed = Ok(<<3>>)

C10_Witness ==
    /\ SingleIterable(marker)
    /\ Given(marker) = <<2, 2>>
    /\ parsed = Ok(<<2, 2>>)

\* C11: a marker giving the process count more than once (positionally and
\* by keyword, two positional arguments, two keywords) makes
\* _parse_marker_nprocs raise pytest.UsageError; no sizes are returned.
Conflicting(m) == Len(m.args) + Len(m.kwargs) >= 2

C11_ConflictingSourcesRejected ==
    (parsed # Raise("idle") /\ Conflicting(marker)) =>
        /\ parsed.exc = "UsageError"
        /\ parsed.val = <<>>

C11_Witness ==
    /\ Len(marker.args) = 1
    /\ Len(marker.kwargs) = 1
    /\ marker.kwargs[1].key = "nprocs"
    /\ marker.args[1] = marker.kwargs[1].val
    /\ parsed = Raise("UsageError")

\* ---------------------------------------------- claims on test generation
\* The sizes a well-formed marker asks for, read off its arguments.
WellFormed(m) ==
    m.present /\ (SingleInt(m) \/ SingleIterable(m)
                  \/ (m.args = <<>> /\ m.kwargs = <<>>))
Asked(m) == IF m.args = <<>> /\ m.kwargs = <<>> THEN <<DefaultNprocs>> ELSE Given(m)

Generated == generated # Raise("idle")
Ceiling == int(environ.val).val
CeilingSet == environ.set /\ int(environ.val).exc = "none"
Accepted == generated.exc = "none"

\* C12: when generation succeeds for a marker asking for more than one size,
\* there is exactly one test identity per size, in the order of the input,
\* the j-th labelled nprocs=<N> with the j-th size N and carrying that one
\* size as its process count; a marker asking for exactly one size yields
\* the one unlabelled, unparametrised identity, whose process count is that
\* size.
C12_OneIdentityPerSize ==
    (Generated /\ Accepted /\ WellFormed(marker)) =>
        LET want == Asked(marker)
            got == generated.val
        IN  /\ Len(want) > 1 =>
                  /\ Len(got) = Len(want)
                  /\ Len(items) = Len(want)
                  /\ \A j \in 1 .. Len(want) :
                        /\ got[j].id = "nprocs=" \o Digit[want[j] + 1]
                        /\ got[j]._nprocs = <<want[j]>>
                        /\ _extract_nprocs_for_single_test(items[j]) =
                              [exc |-> "none", val |-> want[j]]
            /\ Len(want) = 1 =>
                  /\ got = <<[id |-> "", _nprocs |-> <<>>]>>
                  /\ Len(items) = 1
                  /\ _extract_nprocs_for_single_test(items[1]) =
                        [exc |-> "none", val |-> want[1]]

C12_Witness ==
    /\ SingleIterable(marker)
    /\ Given(marker) = <<2, 1>>
    /\ generated.val = <<[id |-> "nprocs=2", _nprocs |-> <<2>>],
                         [id |-> "nprocs=1", _nprocs |-> <<1>>]>>
    /\ pc[0] = "end"
    /\ Len(reports[0]) = 2
    /\ Spawned(0, 1)
    /\ RanInPlace(0, 2)

\* C13: with MAX_NPROCS_FLAG set to a ceiling, a marker asking for some size
\* above the ceiling makes test generation raise pytest.UsageError: the
\* function yields no item, nothing is set up and the launcher is never
\* invoked; a marker whose sizes are all at most the ceiling is accepted, and
\* with the flag unset every marker is accepted.  No launch precedes
\* generation.
AboveCeiling(m) == \E j \in 1 .. Len(Asked(m)) : Asked(m)[j] > Ceiling

C13_CeilingRejectsAtGeneration ==
    /\ ~Generated => launches = <<>>
    /\ (Generated /\ WellFormed(marker)) =>
          /\ (CeilingSet /\ AboveCeiling(marker)) =>
                /\ generated = Raise("UsageError")
                /\ items = <<>>
                /\ reports[0] = <<>>
                /\ launches = <<>>
                /\ pc[0] = "end"
          /\ (CeilingSet /\ ~AboveCeiling(marker)) => Accepted
          /\ ~environ.set => Accepted

C13_Witness ==
    /\ environ = [set |-> TRUE, val |-> "2"]
    /\ Generated
    /\ marker = Mark(<<>>, <<>>)
    /\ generated = Raise("UsageError")
    /\ launches = <<>>
    /\ pc[0] = "end"

\* ------------------------------------------------ claims on the closing barrier
\* The body of the rank's current item has run and finished, by returning
\* or by raising.
BodyFinished(r) == Done(r, cur[r]) /\ RanInPlace(r, cur[r])
EntersBarrier(r) == pc[r] # "barrier" /\ pc'[r] = "barrier"
LeavesBarrier(r) == pc[r] = "barrier" /\ pc'[r] # "barrier"
LeavesTeardown(r) == pc[r] = "teardown" /\ pc'[r] # "teardown"

C15_ChildNeverSpawns ==
    /\ SpawnedChild =>
          /\ launches = <<>>
          /\ \A r \in Ranks :
                /\ pc[r] # "launcher"
                /\ obj[r] = "test_body"
                /\ cmd[r] = NoCmd
                /\ size = 1 =>
                      \A i \in 1 .. Len(reports[r]) :
                          Marked(items[i]) =>
                              reports[r][i] = Report("setup", "AssertionError", "none")
    /\ \A j \in 1 .. Len(launches) : launches[j].genv /\ ~SpawnedChild

C15_Witness ==
    /\ SpawnedChild
    /\ size = 1
    /\ pc[0] = "end"
    /\ launches = <<>>
    /\ \E i \in 1 .. Len(items) :
          /\ Marked(items[i])
          /\ Required(items[i]) > 1
          /\ reports[0][i] = Report("setup", "AssertionError", "none")

\* C16: no step of a session changes the child marker of its process.  A
\* launch is made only by a process without the marker, which is still
\* without it afterwards, and hands the marker to the processes it starts;
\* so a root single process that has run its whole collection has launched
\* one group for each parallel item requiring more than one process,
\* whatever it launched before.
NeedSpawn == {i \in 1 .. Len(items) : Marked(items[i]) /\ Required(items[i]) > 1}

C16_ChildMarkerReadOnly ==
    [][/\ child' = child
       /\ launches' # launches =>
             /\ ~child /\ ~child'
             /\ Len(launches') = Len(launches) + 1
             /\ launches'[Len(launches')].genv
             /\ LaunchesFor(launches'[Len(launches')].test) = <<>>
       /\ \A r \in Ranks :
             (RootSingle /\ pc'[r] = "end" /\ Len(reports'[r]) = Len(items)) =>
                 /\ Len(launches') = Cardinality(NeedSpawn)
                 /\ \A i \in NeedSpawn : Spawned(r, i)'
      ]_vars

C16_Witness ==
    /\ RootSingle
    /\ pc[0] = "end"
    /\ Len(launches) = 2
    /\ launches[1].test = 1 /\ launches[2].test = 2
    /\ launches[1].genv /\ launches[2].genv
    /\ Spawned(0, 1) /\ Spawned(0, 2)

\* ---------------------------------------------- claims on the resolved sizes
\* C17 as stated: a marker that resolves yields at least one size, every
\* size is at least 1, and every launcher invocation asks for 1 and
\* nprocs - 1 >= 1 processes, at least 2 in total.
C17_SizesPositiveLaunchAtLeastTwo ==
    /\ (Generated /\ marker.present /\ _parse_marker_nprocs(marker).exc = "none") =>
          LET nprocss == _parse_marker_nprocs(marker).val
          IN  /\ Len(nprocss) >= 1
              /\ \A j \in 1 .. Len(nprocss) : nprocss[j] >= 1
    /\ \A j \in 1 .. Len(launches) :
          /\ launches[j].first >= 1
          /\ launches[j].rest >= 1
          /\ launches[j].first + launches[j].rest >= 2

\* The launch C17 excludes: the marker parallel(0) in a root single process.
C17_LaunchWithNegativeCount ==
    /\ marker = Mark(<<IntArg(0)>>, <<>>)
    /\ Len(launches) = 1
    /\ launches[1].first = 1
    /\ launches[1].rest = -1

\* ------------------------------------------- claims on a failing collective
SomeRaised == \E r \in Ranks : RaisedAssertion(r)
\* A rank has raised out of the failed call and not yet begun its teardown.
JustRaised == \E r \in Ranks : RaisedAssertion(r) /\ pc[r] = "teardown"
AllInBarrier == \A r \in Ranks : pc[r] = "barrier"
AllEndedFailed ==
    \A r \in Ranks :
        /\ pc[r] = "end"
        /\ RaisedAssertion(r)
        /\ ncalls[r] = ncalls[0]
        /\ failing[r] = failing[0]

RaisedException(r) == Done(r, 1) /\ reports[r][1].exc = "Exception"
\* Rank r has entered the allgather of the call that rank s raised out of.
AheadOf(r, s) == ncalls[r] > ncalls[s]
StuckInGather(r) ==
    /\ pc[r] = "gather"
    /\ waiting[r]
    /\ inbox[r] = <<>>
    /\ ~Done(r, 1)

Maximum(S) == CHOOSE x \in S : \A y \in S : y <= x

C20_SpawnsHalfAndExitsWithMax ==
    /\ Len(comm_list) <= size \div 2
    /\ \A j \in 1 .. Len(comm_list) :
          comm_list[j] = [group |-> j, splits |-> size \div 2, maxprocs |-> 2]
    /\ exited[0] # <<>> =>
          /\ Len(comm_list) = size \div 2
          /\ done = size \div 2
          /\ exited[0] = <<Maximum({0} \cup reported)>>
          /\ exited[0] # <<0>> <=> \E st \in reported : st # 0
          /\ exited[0] = <<0>> <=> \A st \in reported : st = 0

C20_Witness ==
    /\ size >= 4
    /\ Len(comm_list) = 2
    /\ comm_list[1].group = 1 /\ comm_list[2].group = 2
    /\ reported = {0, 1}
    /\ exited[0] = <<1>>
    /\ \A r \in Ranks : exited[r] # <<>>
====
